---------------------------- MODULE Spec2Model ----------------------------
(* A model of mergo's map.go: the record <-> mapping conversion engine      *)
(* (Map, MapWithOverwrite, _map, deepMap, mapStruct, mapMap and the         *)
(* name-casing helpers).  Strings are sequences of one-character strings so *)
(* that changeInitialCase works on the first character as the code does.    *)
(* Addresses are naturals; a record of type Node occupies NodeSize          *)
(* consecutive cells, its first field at the record's own address.          *)
EXTENDS Integers, Sequences, FiniteSets, TLC

(***************************************************************************)
(* Bounds of the model                                                     *)
(***************************************************************************)
\* most entries a source mapping or a destination mapping holds
MaxKeys == 2
\* nested mapStruct frames the runtime grants before the stack overflows
MaxDepth == 3

(***************************************************************************)
(* Program constants                                                       *)
(***************************************************************************)
hashConstant == 17
\* width of uintptr in the model: the hash wraps at 2^WordBits
WordBits == 8

RECURSIVE Pow2(_)
Pow2(n) == IF n = 0 THEN 1 ELSE 2 * Pow2(n - 1)

(***************************************************************************)
(* Characters and names                                                    *)
(***************************************************************************)
LowerChars == <<"a", "c", "d", "e", "g", "i", "n", "o", "t", "u", "x", "y", "z">>
UpperChars == <<"A", "C", "D", "E", "G", "I", "N", "O", "T", "U", "X", "Y", "Z">>

Chars ==
    {LowerChars[i] : i \in DOMAIN LowerChars}
        \cup {UpperChars[i] : i \in DOMAIN UpperChars} \cup {"_"}

\* unicode.ToUpper / unicode.ToLower on the model's alphabet: a character
\* without a case form ("_") maps to itself
ToUpper ==
    [c \in Chars |->
        IF \E i \in DOMAIN LowerChars : LowerChars[i] = c
        THEN UpperChars[CHOOSE i \in DOMAIN LowerChars : LowerChars[i] = c]
        ELSE c]

ToLower ==
    [c \in Chars |->
        IF \E i \in DOMAIN UpperChars : UpperChars[i] = c
        THEN LowerChars[CHOOSE i \in DOMAIN UpperChars : UpperChars[i] = c]
        ELSE c]

changeInitialCase(s, mapper) ==
    IF s = <<>> THEN s ELSE <<mapper[Head(s)]>> \o Tail(s)

\* r >= 'A' && r <= 'Z' on the first rune (RuneError for the empty name)
isExported(field) ==
    /\ field.name # <<>>
    /\ \E i \in DOMAIN UpperChars : UpperChars[i] = Head(field.name)

(***************************************************************************)
(* Values: kind k, type t, payload v (a number: an int, a string code,    *)
(* an address, a source-mapping id)                                        *)
(***************************************************************************)
NilV == [k |-> "invalid", t |-> "nil", v |-> 0]
IntV(n) == [k |-> "int", t |-> "int", v |-> n]
StrV(n) == [k |-> "string", t |-> "string", v |-> n]
PtrV(typ, a) == [k |-> "ptr", t |-> typ, v |-> a]
MapV(id) == [k |-> "map", t |-> "map", v |-> id]

\* what the source's *int pointers point at; a pointer's payload indexes it
SrcHeap == <<IntV(0), IntV(7)>>

\* reflect.Kind of a declared type
KindOf(typ) ==
    CASE typ = "Node" -> "struct"
      [] typ = "*Node" -> "ptr"
      [] typ = "*int" -> "ptr"
      [] typ = "iface" -> "interface"
      [] typ = "nil" -> "invalid"
      [] OTHER -> typ

(***************************************************************************)
(* The record type of the model                                            *)
(*   type Node struct { Next *Node; Age int; Any interface{};              *)
(*                      id int; _count int }                               *)
(***************************************************************************)
nNext == <<"N", "e", "x", "t">>
nAge == <<"A", "g", "e">>
nAny == <<"A", "n", "y">>
nId == <<"i", "d">>
nCount == <<"_", "c", "n", "t">>

NodeFields ==
    << [name |-> nNext,  typ |-> "*Node"],
       [name |-> nAge,   typ |-> "int"],
       [name |-> nAny,   typ |-> "iface"],
       [name |-> nId,    typ |-> "int"],
       [name |-> nCount, typ |-> "int"] >>

NodeSize == Len(NodeFields)

\* a mutant: the lookup ignores the case of the first character
FieldByName_CaseFold(name) ==
    IF \E i \in DOMAIN NodeFields :
           changeInitialCase(NodeFields[i].name, ToUpper) = name
    THEN CHOOSE i \in DOMAIN NodeFields :
           changeInitialCase(NodeFields[i].name, ToUpper) = name
    ELSE 0

\* reflect.Value.FieldByName: the field's index, 0 for the zero Value.
\* It finds unexported fields as well as exported ones.
FieldByName(name) ==
    IF \E i \in DOMAIN NodeFields : NodeFields[i].name = name
    THEN CHOOSE i \in DOMAIN NodeFields : NodeFields[i].name = name
    ELSE 0

\* reflect.New(Node): a zero-valued record
ZeroNode == << PtrV("*Node", 0), IntV(0), NilV, IntV(0), IntV(0) >>

(***************************************************************************)
(* Collaborators that live outside map.go                                  *)
(***************************************************************************)
\* isEmptyValue: the zero value of the value's runtime type (0, "", a nil
\* pointer, a mapping without entries, an untyped nil)
isEmptyValue(val, maps) ==
    CASE val.k = "invalid" -> TRUE
      [] val.k = "int" -> val.v = 0
      [] val.k = "string" -> val.v = 0
      [] val.k = "ptr" -> val.v = 0
      [] val.k = "map" -> val.v = 0 \/ DOMAIN maps[val.v] = {}
      [] OTHER -> FALSE

NoErr == [kind |-> "nil", field |-> <<>>, found |-> "", expected |-> ""]
ErrNonPointerAgument == [NoErr EXCEPT !.kind = "NonPointerArgument"]
ErrExpectedMapAsDestination == [NoErr EXCEPT !.kind = "ExpectedMapAsDestination"]
ErrExpectedStructAsDestination == [NoErr EXCEPT !.kind = "ExpectedStructAsDestination"]
ErrNotSupported == [NoErr EXCEPT !.kind = "NotSupported"]
ErrNilArguments == [NoErr EXCEPT !.kind = "NilArguments"]
ErrMerge == [NoErr EXCEPT !.kind = "MergeError"]

\* fmt.Errorf("type mismatch on %s field: found %v, expected %v", ...)
TypeMismatch(fieldName, srcKind, dstKind) ==
    [kind |-> "TypeMismatch", field |-> fieldName,
     found |-> srcKind, expected |-> dstKind]

(***************************************************************************)
(* mapMap: record -> mapping.  src is the source record's field values in  *)
(* declaration order; the result carries the mapping, the keys assigned    *)
(* (one entry per assignment) and the source fields read.                  *)
(***************************************************************************)
\* a mutant: the empty-guard dropped, every exported field is written
mapMapField_NoGuard(acc, i, src, overwrite) ==
    LET field == NodeFields[i]
        fieldName == changeInitialCase(field.name, ToLower)
    IN  IF ~isExported(field) THEN acc
        ELSE [m |-> [x \in DOMAIN acc.m \cup {fieldName} |->
                        IF x = fieldName THEN src[i] ELSE acc.m[x]],
              writes |-> Append(acc.writes, fieldName),
              reads |-> acc.reads \cup {i}]

\* one iteration of the loop over the source record's fields
mapMapField(acc, i, src, overwrite) ==
    LET field == NodeFields[i]
        fieldName == changeInitialCase(field.name, ToLower)
    IN  IF ~isExported(field) THEN acc
        ELSE IF \/ fieldName \notin DOMAIN acc.m
                \/ isEmptyValue(acc.m[fieldName], <<>>)
                \/ overwrite
             THEN [m |-> [x \in DOMAIN acc.m \cup {fieldName} |->
                            IF x = fieldName THEN src[i] ELSE acc.m[x]],
                   writes |-> Append(acc.writes, fieldName),
                   reads |-> acc.reads \cup {i}]
             ELSE acc

RECURSIVE mapMapLoop(_, _, _, _)
mapMapLoop(acc, i, src, overwrite) ==
    IF i > Len(src) THEN acc
    ELSE mapMapLoop(mapMapField(acc, i, src, overwrite), i + 1, src, overwrite)

mapMap(dstM, src, cfg) ==
    mapMapLoop([m |-> dstM, writes |-> <<>>, reads |-> {}], 1, src, cfg.Overwrite)

(***************************************************************************)
(* State                                                                   *)
(***************************************************************************)
VARIABLES
    pc,        \* "idle", "running", "done", "panic", "overflow"
    mem,       \* destination storage: cell at address a is mem[a]
    dstMap,    \* the destination mapping's entries (record -> mapping)
    srcRec,    \* the source record's field values (record -> mapping)
    srcMaps,   \* the source mappings by id; MapV(id) refers to srcMaps[id]
    config,    \* Config: Overwrite, overwriteWithEmptyValue
    visited,   \* map[uintptr]*visit: hash -> chain of [ptr, typ]
    stack,     \* the active mapStruct invocations, innermost last
    err,       \* the error the top-level call returned
    args,      \* the top-level call's arguments
    mem0,      \* destination storage when the call began
    dstMap0,   \* destination mapping when the call began
    builds,    \* builder invocations so far: [addr, typ, by]
    drives,    \* deepMap invocations that passed the visited check
    merges,    \* the deepMerge invocations so far, as a set of [addr, typ, src]
    inspected, \* destination field indexes FieldByName handed to mapStruct
    keysDone,  \* number of source keys the record-builder has taken up
    last       \* what the latest step did

vars == <<pc, mem, dstMap, srcRec, srcMaps, config, visited, stack, err, args,
          mem0, dstMap0, builds, drives, merges, inspected, keysDone, last>>

\* the state as one record, so that the code's functions are operators on it
State ==
    [pc |-> pc, mem |-> mem, dstMap |-> dstMap, srcRec |-> srcRec,
     srcMaps |-> srcMaps, config |-> config, visited |-> visited,
     stack |-> stack, err |-> err, args |-> args, mem0 |-> mem0,
     dstMap0 |-> dstMap0, builds |-> builds, drives |-> drives,
     merges |-> merges, inspected |-> inspected, keysDone |-> keysDone,
     last |-> last]

Becomes(s) ==
    /\ pc' = s.pc
    /\ mem' = s.mem
    /\ dstMap' = s.dstMap
    /\ srcRec' = s.srcRec
    /\ srcMaps' = s.srcMaps
    /\ config' = s.config
    /\ visited' = s.visited
    /\ stack' = s.stack
    /\ err' = s.err
    /\ args' = s.args
    /\ mem0' = s.mem0
    /\ dstMap0' = s.dstMap0
    /\ builds' = s.builds
    /\ drives' = s.drives
    /\ merges' = s.merges
    /\ inspected' = s.inspected
    /\ keysDone' = s.keysDone
    /\ last' = s.last

EmptyMap == [x \in {} |-> NilV]

NoStep ==
    [op |-> "none", key |-> <<>>, field |-> 0, addr |-> 0, src |-> NilV,
     before |-> NilV, wrote |-> FALSE, frames |-> 0, writes |-> <<>>,
     reads |-> {}]

NilArg == [shape |-> "nil", typ |-> "nil"]

IdleState ==
    [pc |-> "idle", mem |-> <<>>, dstMap |-> EmptyMap, srcRec |-> <<>>,
     srcMaps |-> <<>>, config |-> [Overwrite |-> FALSE,
                                  overwriteWithEmptyValue |-> FALSE],
     visited |-> EmptyMap, stack |-> <<>>, err |-> NoErr,
     args |-> [dst |-> NilArg, src |-> NilArg, opts |-> <<>>],
     mem0 |-> <<>>, dstMap0 |-> EmptyMap, builds |-> <<>>, drives |-> <<>>,
     merges |-> {}, inspected |-> {}, keysDone |-> 0, last |-> NoStep]

\* every caller returns the callee's error at once: the whole call ends
ReturnErr(s, e) == [s EXCEPT !.pc = "done", !.err = e, !.stack = <<>>]

\* the outermost call returns nil
ReturnNil(s) == [s EXCEPT !.pc = "done", !.err = NoErr, !.stack = <<>>]

(***************************************************************************)
(* GenericMerge (deepMerge), the same-shape collaborator, on one cell:     *)
(* merges src into the destination in place honouring Overwrite and        *)
(* overwriteWithEmptyValue; a value of another type cannot be stored.      *)
(* fail is the collaborator's choice to return an error.                   *)
(***************************************************************************)
deepMerge(s, dst, src, fail) ==
    LET cur == s.mem[dst.addr]
        s1 == [s EXCEPT !.merges = @ \cup {[addr |-> dst.addr,
                                              typ |-> dst.typ, src |-> src]}]
        assignable == dst.typ = "iface" \/ src.t = dst.typ
        doWrite == /\ dst.canSet
                   /\ \/ s.config.Overwrite
                      \/ isEmptyValue(cur, s.srcMaps)
                      \/ /\ isEmptyValue(src, s.srcMaps)
                         /\ s.config.overwriteWithEmptyValue
    IN  IF fail \/ ~assignable
        THEN [s |-> s1, e |-> ErrMerge]
        ELSE IF doWrite
             THEN [s |-> [s1 EXCEPT !.mem[dst.addr] = src, !.last.wrote = TRUE],
                   e |-> NoErr]
             ELSE [s |-> s1, e |-> NoErr]

(***************************************************************************)
(* The visited table                                                       *)
(***************************************************************************)
\* h := hashConstant * addr, in uintptr arithmetic
Hash(addr) == (hashConstant * addr) % Pow2(WordBits)

\* visited[h]: the chain stored at h, the empty chain (nil) when absent
Chain(tbl, h) == IF h \in DOMAIN tbl THEN tbl[h] ELSE <<>>

\* for p := seen; p != nil; p = p.next { if p.ptr == addr && p.typ == typ }
Seen(tbl, addr, typ) ==
    \E i \in DOMAIN Chain(tbl, Hash(addr)) :
        /\ Chain(tbl, Hash(addr))[i].ptr = addr
        /\ Chain(tbl, Hash(addr))[i].typ = typ

\* visited[h] = &visit{addr, typ, seen}
Remember(tbl, addr, typ) ==
    [h \in DOMAIN tbl \cup {Hash(addr)} |->
        IF h = Hash(addr)
        THEN <<[ptr |-> addr, typ |-> typ]>> \o Chain(tbl, h)
        ELSE tbl[h]]

(***************************************************************************)
(* mapStruct, entered: a new invocation over the keys of the source        *)
(* mapping.  The loop body is mapStructKey; the runtime's stack is finite. *)
(***************************************************************************)
mapStruct(s, dst, src, depth) ==
    IF Len(s.stack) >= MaxDepth
    THEN [s EXCEPT !.pc = "overflow"]
    ELSE [s EXCEPT
            !.builds = Append(@, [addr |-> dst.addr, typ |-> dst.typ,
                                  by |-> "mapStruct"]),
            !.stack = Append(@, [dst |-> dst.addr, src |-> src.v,
                                 todo |-> DOMAIN s.srcMaps[src.v],
                                 depth |-> depth])]

(***************************************************************************)
(* deepMap: the traversal driver                                           *)
(***************************************************************************)
\* the dispatch on dst.Kind(), after the visited check
deepMapDispatch(s, dst, src, depth) ==
    LET s1 == [s EXCEPT !.drives = Append(@, [addr |-> dst.addr,
                                              typ |-> dst.typ])]
    IN  CASE KindOf(dst.typ) = "map" ->
               LET r == mapMap(s1.dstMap, s1.srcRec, s1.config)
               IN  [s1 EXCEPT !.dstMap = r.m,
                              !.last = [NoStep EXCEPT !.op = "mapMap",
                                                      !.writes = r.writes,
                                                      !.reads = r.reads],
                              !.builds = Append(@, [addr |-> dst.addr,
                                                    typ |-> dst.typ,
                                                    by |-> "mapMap"])]
          [] KindOf(dst.typ) = "ptr" ->
               \* if dst.IsNil() { dst.Set(reflect.New(dst.Type().Elem())) }
               LET isNil == s1.mem[dst.addr].v = 0
                   fresh == Len(s1.mem) + 1
                   s2 == IF isNil
                         THEN [s1 EXCEPT
                                 !.mem = [@ EXCEPT ![dst.addr] =
                                            PtrV(dst.typ, fresh)] \o ZeroNode]
                         ELSE s1
                   elem == [addr |-> s2.mem[dst.addr].v, typ |-> "Node",
                            canAddr |-> TRUE, canSet |-> TRUE]
               IN  mapStruct(s2, elem, src, depth)
          [] KindOf(dst.typ) = "struct" -> mapStruct(s1, dst, src, depth)
          [] OTHER -> s1

deepMap(s, dst, src, depth) ==
    IF dst.canAddr
    THEN IF Seen(s.visited, dst.addr, dst.typ)
         THEN s
         ELSE deepMapDispatch(
                  [s EXCEPT !.visited = Remember(@, dst.addr, dst.typ)],
                  dst, src, depth)
    ELSE deepMapDispatch(s, dst, src, depth)


(***************************************************************************)
(* mapStruct's loop body for one key of the innermost invocation           *)
(***************************************************************************)
\* reflect.ValueOf(srcValue): never addressable
ValueOf(val) == [val |-> val, canAddr |-> FALSE]

\* Value.Elem of a source pointer: the zero Value for a nil pointer,
\* else the (addressable) pointee
Elem(e) ==
    IF e.val.v = 0
    THEN [val |-> NilV, canAddr |-> FALSE]
    ELSE [val |-> SrcHeap[e.val.v], canAddr |-> TRUE]

\* the field of the record at base that FieldByName found
FieldValue(base, idx) ==
    [addr |-> base + idx - 1, typ |-> NodeFields[idx].typ,
     canAddr |-> TRUE, canSet |-> isExported(NodeFields[idx])]

\* lines 75-85: the pointer adjustments.  Interface() on the zero Value
\* panics, which the result reports as panic = TRUE.
Resolve(srcElement, dstKind) ==
    LET srcKind == srcElement.val.k
    IN  IF srcKind = "ptr" /\ dstKind # "ptr"
        THEN LET el == Elem(srcElement)
             IN  IF el.val.k = "invalid"
                 THEN [el |-> el, kind |-> "invalid", panic |-> TRUE]
                 ELSE [el |-> el, kind |-> el.val.k, panic |-> FALSE]
        ELSE IF dstKind = "ptr" /\ srcKind # "ptr" /\ srcElement.canAddr
             THEN [el |-> [val |-> [k |-> "struct", t |-> "reflect.Value",
                                    v |-> 0],
                           canAddr |-> FALSE],
                   kind |-> "ptr", panic |-> FALSE]
             ELSE [el |-> srcElement, kind |-> srcKind, panic |-> FALSE]

\* the switch of lines 93-106: which collaborator takes the pair
Dispatch(srcKind, dstKind) ==
    CASE srcKind = dstKind -> "deepMerge"
      [] dstKind = "interface" /\ dstKind = "interface" -> "deepMerge"
      [] srcKind = "map" -> "deepMap"
      [] OTHER -> "mismatch"

\* a mutant: the error is dropped and the loop goes on
OnError_Continue(s, e) == s

\* if err != nil { return err }: the invocation and, through deepMap and
\* the invocations above it, the whole call return the error
OnError(s, e) == ReturnErr(s, e)

\* a mutant: the flag is left as the caller's configuration had it
ForceEmptyOverwrite_Skip(cfg) == cfg

\* config.overwriteWithEmptyValue = true
ForceEmptyOverwrite(cfg) == [cfg EXCEPT !.overwriteWithEmptyValue = TRUE]

mapStructKey(s, key, fail) ==
    LET f == s.stack[Len(s.stack)]
        top == Len(s.stack)
        \* the key is taken from the range; config.overwriteWithEmptyValue = true
        s0 == [s EXCEPT !.config = ForceEmptyOverwrite(@),
                        !.stack[top].todo = @ \ {key},
                        !.keysDone = @ + 1,
                        !.last = [NoStep EXCEPT !.key = key, !.frames = top]]
        srcValue == s.srcMaps[f.src][key]
        fieldName == changeInitialCase(key, ToUpper)
        idx == FieldByName(fieldName)
    IN  IF idx = 0
        THEN [s0 EXCEPT !.last.op = "unknown"]
        ELSE
        LET dstElement == FieldValue(f.dst, idx)
            dstKind == KindOf(dstElement.typ)
            r == Resolve(ValueOf(srcValue), dstKind)
            s1 == [s0 EXCEPT !.inspected = @ \cup {idx},
                             !.last.field = idx,
                             !.last.addr = dstElement.addr,
                             !.last.src = r.el.val,
                             !.last.before = s.mem[dstElement.addr]]
            depth == f.depth + 1
            s2 == [s1 EXCEPT !.stack[top].depth = depth]
        IN  IF r.panic
            THEN [s1 EXCEPT !.pc = "panic", !.last.op = "panic"]
            ELSE IF r.el.val.k = "invalid"
            THEN [s1 EXCEPT !.last.op = "invalid"]
            ELSE
            CASE Dispatch(r.kind, dstKind) = "deepMerge" ->
                   LET m == deepMerge([s2 EXCEPT !.last.op = "deepMerge"],
                                      dstElement, r.el.val, fail)
                   IN  IF m.e # NoErr THEN OnError(m.s, m.e) ELSE m.s
              [] Dispatch(r.kind, dstKind) = "deepMap" ->
                   deepMap([s2 EXCEPT !.last.op = "deepMap"],
                           dstElement, r.el.val, depth)
              [] OTHER ->
                   OnError([s2 EXCEPT !.last.op = "mismatch"],
                           TypeMismatch(fieldName, r.kind, dstKind))

(***************************************************************************)
(* The top-level call                                                      *)
(***************************************************************************)
\* ResolveValues: normalises both arguments into traversable handles (the
\* destination pointer and a source pointer are dereferenced); nil
\* arguments are an error.  The destination lives at address 1.
resolveValues(dst, src) ==
    IF dst.shape = "nil" \/ src.shape = "nil"
    THEN [vDst |-> NilV, vSrc |-> NilV, e |-> ErrNilArguments]
    ELSE [vDst |-> [addr |-> 1, typ |-> dst.typ, canAddr |-> TRUE,
                    canSet |-> TRUE],
          vSrc |-> CASE src.typ = "Node" -> [k |-> "struct", t |-> "Node", v |-> 0]
                     [] src.typ = "map" -> MapV(1)
                     [] OTHER -> IntV(7),
          e |-> NoErr]

\* GenericMerge on the whole arguments, when both have the same shape
RECURSIVE mergeFields(_, _, _)
mergeFields(s, i, cfg) ==
    IF i > NodeSize THEN s
    ELSE mergeFields(
             IF /\ isExported(NodeFields[i])
                /\ cfg.Overwrite \/ isEmptyValue(s.mem[i], s.srcMaps)
             THEN [s EXCEPT !.mem[i] = s.srcRec[i]]
             ELSE s,
             i + 1, cfg)

mergeKeys(s, cfg) ==
    LET srcM == s.srcMaps[1]
    IN  [s EXCEPT !.dstMap =
            [x \in DOMAIN s.dstMap \cup DOMAIN srcM |->
                IF /\ x \in DOMAIN srcM
                   /\ \/ x \notin DOMAIN s.dstMap
                      \/ cfg.Overwrite
                      \/ isEmptyValue(s.dstMap[x], s.srcMaps)
                THEN srcM[x]
                ELSE s.dstMap[x]]]

deepMergeWhole(s, vDst, vSrc, fail) ==
    LET s1 == [s EXCEPT !.merges = @ \cup {[addr |-> vDst.addr,
                                              typ |-> vDst.typ, src |-> vSrc]}]
    IN  IF fail THEN [s |-> s1, e |-> ErrMerge]
        ELSE [s |-> CASE vDst.typ = "Node" -> mergeFields(s1, 1, s1.config)
                      [] vDst.typ = "map" -> mergeKeys(s1, s1.config)
                      [] OTHER ->
                           IF s1.config.Overwrite
                              \/ isEmptyValue(s1.mem[1], s1.srcMaps)
                           THEN [s1 EXCEPT !.mem[1] = vSrc]
                           ELSE s1,
              e |-> NoErr]

\* for _, opt := range opts { opt(config) }
ApplyOpts(cfg, opts) ==
    IF \E i \in DOMAIN opts : opts[i] = "WithOverride"
    THEN [cfg EXCEPT !.Overwrite = TRUE]
    ELSE cfg

\* the caller's arguments are in place when the call begins
Begin(in, opts) ==
    [IdleState EXCEPT !.pc = "running", !.mem = in.mem, !.mem0 = in.mem,
                      !.dstMap = in.dstMap, !.dstMap0 = in.dstMap,
                      !.srcRec = in.srcRec, !.srcMaps = in.srcMaps,
                      !.args = [dst |-> in.dst, src |-> in.src, opts |-> opts]]

\* the call returns nil when the driver came back without a pending
\* mapStruct invocation
Finish(s) == IF s.pc = "running" /\ s.stack = <<>> THEN ReturnNil(s) ELSE s

\* a mutant: the record-source case forgets to look at the destination
mapResolved_NoMapCheck(s, vDst, vSrc, fail) ==
    LET dk == KindOf(vDst.typ)
        sk == vSrc.k
    IN  IF sk = dk
        THEN LET m == deepMergeWhole(s, vDst, vSrc, fail)
             IN  IF m.e # NoErr THEN ReturnErr(m.s, m.e) ELSE ReturnNil(m.s)
        ELSE CASE sk = "map" /\ dk # "struct" ->
                    ReturnErr(s, ErrExpectedStructAsDestination)
               [] sk # "struct" /\ sk # "map" ->
                    ReturnErr(s, ErrNotSupported)
               [] OTHER -> Finish(deepMap(s, vDst, vSrc, 0))

\* lines 192-210, once the values are resolved
mapResolved(s, vDst, vSrc, fail) ==
    LET dk == KindOf(vDst.typ)
        sk == vSrc.k
    IN  IF sk = dk
        THEN LET m == deepMergeWhole(s, vDst, vSrc, fail)
             IN  IF m.e # NoErr THEN ReturnErr(m.s, m.e) ELSE ReturnNil(m.s)
        ELSE CASE sk = "struct" /\ dk # "map" ->
                    ReturnErr(s, ErrExpectedMapAsDestination)
               [] sk = "map" /\ dk # "struct" ->
                    ReturnErr(s, ErrExpectedStructAsDestination)
               [] sk # "struct" /\ sk # "map" ->
                    ReturnErr(s, ErrNotSupported)
               [] OTHER -> Finish(deepMap(s, vDst, vSrc, 0))

_map(in, opts, fail) ==
    LET s == Begin(in, opts)
    IN  IF in.dst.shape # "nil" /\ in.dst.shape # "ptr"
        THEN ReturnErr(s, ErrNonPointerAgument)
        ELSE LET s1 == [s EXCEPT !.config = ApplyOpts(@, opts)]
                 rv == resolveValues(in.dst, in.src)
             IN  IF rv.e # NoErr
                 THEN ReturnErr(s1, rv.e)
                 ELSE mapResolved(s1, rv.vDst, rv.vSrc, fail)

(***************************************************************************)
(* The arguments a caller may pass                                         *)
(***************************************************************************)
kNext == <<"n", "e", "x", "t">>
kAge == <<"a", "g", "e">>
kAny == <<"a", "n", "y">>
kId == <<"i", "d">>
kCount == <<"_", "c", "n", "t">>
kZz == <<"z", "z">>

Shapes ==
    {NilArg} \cup {[shape |-> sh, typ |-> t] :
                       sh \in {"value", "ptr"}, t \in {"Node", "map", "int"}}

\* a destination record at address 1: Next, Age, Any, id, _cnt
NodeAt(next, age) == << PtrV("*Node", next), IntV(age), NilV, IntV(1), IntV(2) >>

\* one record (Next nil or pointing at the record itself), or two records
\* that point at each other
DstHeaps ==
    {NodeAt(0, 30), NodeAt(1, 0), NodeAt(NodeSize + 1, 30) \o NodeAt(1, 0)}

SrcRecs ==
    {<< PtrV("*Node", next), IntV(age), any, IntV(1), IntV(2) >> :
        next \in {0, 1}, age \in {0, 7}, any \in {NilV, StrV(1)}}

\* the mappings with at most n entries whose values are those vals allows
MapsOf(vals, n) ==
    UNION { {f \in [K -> UNION {vals[k] : k \in K}] :
                \A k \in K : f[k] \in vals[k]} :
            K \in {K \in SUBSET DOMAIN vals : Cardinality(K) <= n} }

DstMapVals ==
    [k \in {kAge, kNext, kId, kCount} |-> {NilV, IntV(0), IntV(30)}]

SrcMapVals ==
    [k \in {kNext, kAge, kAny, kId, kCount, kZz} |->
        CASE k = kNext -> {MapV(1), MapV(2), PtrV("*Node", 0)}
          [] k = kAge -> {IntV(0), IntV(5), StrV(1), NilV, PtrV("*int", 0),
                          PtrV("*int", 2), MapV(2)}
          [] k = kAny -> {IntV(5), MapV(2)}
          [] k = kCount -> {IntV(5), StrV(1)}
          [] OTHER -> {IntV(5)}]

NestedMapVals ==
    [k \in {kNext, kAge} |->
        CASE k = kNext -> {MapV(1), MapV(2)}
          [] OTHER -> {IntV(5), StrV(1)}]

\* the source mapping and the one mapping it may hold as a nested value
SrcTables ==
    UNION { {<<m1, m2>> :
                m2 \in IF \E k \in DOMAIN m1 : m1[k] = MapV(2)
                       THEN MapsOf(NestedMapVals, 1)
                       ELSE {EmptyMap}} :
            m1 \in MapsOf(SrcMapVals, MaxKeys) }

DefaultTable == << [k \in {kAge} |-> IntV(5)], EmptyMap >>
DefaultRec == << PtrV("*Node", 0), IntV(7), NilV, IntV(1), IntV(2) >>

\* a destination mapping is an allocated mapping (assigning to an entry of
\* a nil mapping is the caller's error)
DstData(d) ==
    CASE d.typ = "Node" -> {[mem |-> h, dstMap |-> EmptyMap] : h \in DstHeaps}
      [] d.typ = "map" -> {[mem |-> <<MapV(0)>>, dstMap |-> m] :
                              m \in MapsOf(DstMapVals, MaxKeys)}
      [] d.typ = "int" -> {[mem |-> <<IntV(3)>>, dstMap |-> EmptyMap]}
      [] OTHER -> {[mem |-> <<>>, dstMap |-> EmptyMap]}

SrcData(d, src) ==
    CASE src.typ = "Node" /\ d.shape = "ptr" /\ d.typ \in {"Node", "map"} ->
             {[srcRec |-> r, srcMaps |-> <<>>] : r \in SrcRecs}
      [] src.typ = "Node" -> {[srcRec |-> DefaultRec, srcMaps |-> <<>>]}
      [] src.typ = "map" /\ d.shape = "ptr" /\ d.typ = "Node" ->
             {[srcRec |-> <<>>, srcMaps |-> t] : t \in SrcTables}
      [] src.typ = "map" -> {[srcRec |-> <<>>, srcMaps |-> DefaultTable]}
      [] OTHER -> {[srcRec |-> <<>>, srcMaps |-> <<>>]}

Inputs ==
    UNION { UNION { {[dst |-> d, src |-> sr, mem |-> dd.mem,
                      dstMap |-> dd.dstMap, srcRec |-> sd.srcRec,
                      srcMaps |-> sd.srcMaps] :
                        dd \in DstData(d), sd \in SrcData(d, sr)} :
                    sr \in Shapes } :
            d \in Shapes }

(***************************************************************************)
(* Actions                                                                 *)
(***************************************************************************)
Init ==
    /\ pc = IdleState.pc
    /\ mem = IdleState.mem
    /\ dstMap = IdleState.dstMap
    /\ srcRec = IdleState.srcRec
    /\ srcMaps = IdleState.srcMaps
    /\ config = IdleState.config
    /\ visited = IdleState.visited
    /\ stack = IdleState.stack
    /\ err = IdleState.err
    /\ args = IdleState.args
    /\ mem0 = IdleState.mem0
    /\ dstMap0 = IdleState.dstMap0
    /\ builds = IdleState.builds
    /\ drives = IdleState.drives
    /\ merges = IdleState.merges
    /\ inspected = IdleState.inspected
    /\ keysDone = IdleState.keysDone
    /\ last = IdleState.last

\* Map(dst, src, opts...)
Map ==
    /\ pc = "idle"
    /\ \E in \in Inputs, opts \in {<<>>, <<"WithOverride">>}, fail \in BOOLEAN :
           Becomes(_map(in, opts, fail))

\* MapWithOverwrite(dst, src, opts...): _map with WithOverride appended
MapWithOverwrite ==
    /\ pc = "idle"
    /\ \E in \in Inputs, opts \in {<<>>}, fail \in BOOLEAN :
           Becomes(_map(in, Append(opts, "WithOverride"), fail))

\* the range loop of the innermost mapStruct takes up its next key, in
\* whatever order the runtime iterates the mapping
MapStructNext ==
    /\ pc = "running"
    /\ stack # <<>>
    /\ \E key \in stack[Len(stack)].todo, fail \in BOOLEAN :
           Becomes(mapStructKey(State, key, fail))

\* the innermost mapStruct has ranged over every key: return nil
MapStructReturn ==
    /\ pc = "running"
    /\ stack # <<>>
    /\ stack[Len(stack)].todo = {}
    /\ Becomes(Finish([State EXCEPT !.stack = SubSeq(@, 1, Len(@) - 1),
                                    !.last = [NoStep EXCEPT !.op = "return"]]))

Next == Map \/ MapWithOverwrite \/ MapStructNext \/ MapStructReturn

Spec == Init /\ [][Next]_vars

(***************************************************************************)
(* Vocabulary of the properties                                            *)
(***************************************************************************)
\* the call is a record -> mapping conversion that reached the driver
RecordToMapping ==
    /\ args.dst = [shape |-> "ptr", typ |-> "map"]
    /\ args.src.typ = "Node"

\* the call is a mapping -> record conversion that reached the driver
MappingToRecord ==
    /\ args.dst = [shape |-> "ptr", typ |-> "Node"]
    /\ args.src.typ = "map"

\* the key a record field is exported under
LowerKey(i) == changeInitialCase(NodeFields[i].name, ToLower)

ExportedFields == {i \in DOMAIN NodeFields : isExported(NodeFields[i])}

\* the mapping-builder's condition for writing key k
MayWrite(k) ==
    \/ k \notin DOMAIN dstMap0
    \/ isEmptyValue(dstMap0[k], srcMaps)
    \/ config.Overwrite

\* number of times key k was assigned by the latest mapMap call
Assigned(k) == Cardinality({n \in DOMAIN last.writes : last.writes[n] = k})

(***************************************************************************)
(* C1: record -> mapping.  For every exported source field with key k (its *)
(* name, first character lower-cased): the call assigns the field's value  *)
(* to k exactly when k was absent, or held an empty value, or Overwrite is *)
(* set, and k then holds that value; otherwise k keeps its previous value. *)
(* Keys that are no exported field's lower-initial name are unchanged, and *)
(* no key is assigned more than once.                                      *)
(***************************************************************************)
C1_MapMapPolicy ==
    (RecordToMapping /\ pc = "done") =>
        /\ err = NoErr
        /\ \A i \in ExportedFields :
              /\ Assigned(LowerKey(i)) = (IF MayWrite(LowerKey(i)) THEN 1 ELSE 0)
              /\ LowerKey(i) \in DOMAIN dstMap
              /\ dstMap[LowerKey(i)] =
                    IF MayWrite(LowerKey(i)) THEN srcRec[i]
                    ELSE dstMap0[LowerKey(i)]
        /\ \A k \in (DOMAIN dstMap \cup DOMAIN dstMap0)
                        \ {LowerKey(i) : i \in ExportedFields} :
              /\ k \in DOMAIN dstMap0
              /\ k \in DOMAIN dstMap
              /\ dstMap[k] = dstMap0[k]
              /\ Assigned(k) = 0

\* {"age": 30} stays 30 without Overwrite while the absent "next" is added
C1_Witness ==
    /\ RecordToMapping /\ pc = "done" /\ ~config.Overwrite
    /\ kAge \in DOMAIN dstMap0 /\ dstMap0[kAge] = IntV(30)
    /\ srcRec[2] = IntV(7) /\ dstMap[kAge] = IntV(30)
    /\ kNext \notin DOMAIN dstMap0 /\ kNext \in DOMAIN dstMap
    /\ kId \in DOMAIN dstMap0

(***************************************************************************)
(* C2: mapping -> record without Overwrite.  The record-builder has forced *)
(* overwriteWithEmptyValue before each generic-merge call it makes, so an  *)
(* entry with an empty value whose key matches an exported field of the    *)
(* same shape is applied: Age=30 with {"age": 0} leaves Age=0.             *)
(***************************************************************************)
C2_EmptyEntryApplied ==
    (MappingToRecord /\ last.op = "deepMerge") =>
        /\ config.overwriteWithEmptyValue
        /\ (/\ err = NoErr
            /\ ~config.Overwrite
            /\ isExported(NodeFields[last.field])
            /\ isEmptyValue(last.src, srcMaps))
           => mem[last.addr] = last.src

C2_Witness ==
    /\ MappingToRecord /\ last.op = "deepMerge" /\ err = NoErr
    /\ ~config.Overwrite
    /\ last.key = kAge /\ last.before = IntV(30) /\ last.src = IntV(0)
    /\ mem[last.addr] = IntV(0)

(***************************************************************************)
(* C3: validation in _map.  A non-nil destination that is no pointer fails *)
(* with NonPointerArgument before options, resolution and traversal.  With *)
(* resolved values: same shape is forwarded whole to the generic merge;    *)
(* else record source and non-mapping destination fails with               *)
(* ExpectedMapAsDestination; else mapping source and non-record            *)
(* destination with ExpectedStructAsDestination; else a source that is     *)
(* neither fails with NotSupported.  The driver runs only for (mapping,    *)
(* record) and (record, mapping), and no validation failure changes the    *)
(* destination.                                                            *)
(***************************************************************************)
ValidationErrors ==
    {ErrNonPointerAgument, ErrExpectedMapAsDestination,
     ErrExpectedStructAsDestination, ErrNotSupported}

Resolved == args.dst.shape = "ptr" /\ args.src.shape # "nil"

C3_Validation ==
    (pc # "idle") =>
        /\ args.dst.shape = "value" =>
              /\ err = ErrNonPointerAgument
              /\ ~config.Overwrite
              /\ drives = <<>> /\ merges = {}
        /\ (Resolved /\ args.src.typ = args.dst.typ) =>
              /\ drives = <<>>
              /\ Cardinality(merges) = 1
              /\ \A m \in merges : m.addr = 1 /\ m.typ = args.dst.typ
              /\ err \in {NoErr, ErrMerge}
        /\ (Resolved /\ args.src.typ # args.dst.typ) =>
              /\ (args.src.typ = "Node" /\ args.dst.typ # "map")
                    => err = ErrExpectedMapAsDestination
              /\ (args.src.typ = "map" /\ args.dst.typ # "Node")
                    => err = ErrExpectedStructAsDestination
              /\ args.src.typ \notin {"Node", "map"} => err = ErrNotSupported
        /\ drives # <<>> => (RecordToMapping \/ MappingToRecord)
        /\ err \in ValidationErrors =>
              /\ pc = "done"
              /\ mem = mem0 /\ dstMap = dstMap0
              /\ drives = <<>> /\ merges = {} /\ builds = <<>>

C3_Witness ==
    /\ pc = "done"
    /\ args.dst = [shape |-> "ptr", typ |-> "int"]
    /\ args.src = [shape |-> "ptr", typ |-> "Node"]
    /\ err = ErrExpectedMapAsDestination
    /\ mem = mem0

\* the field index of the cell at address a (records are laid out back to
\* back from address 1)
FieldAt(a) == ((a - 1) % NodeSize) + 1

UnexportedNames ==
    {NodeFields[i].name : i \in DOMAIN NodeFields \ ExportedFields}

(***************************************************************************)
(* C4: only exported fields take part.  Record -> mapping reads no         *)
(* unexported source field and creates no key for one; mapping -> record   *)
(* never inspects an unexported destination field, never passes one to the *)
(* generic merge or the driver, never writes one and never names one in an *)
(* error, whatever the source key.                                         *)
(***************************************************************************)
C4_ExportedOnly ==
    /\ (RecordToMapping /\ pc = "done") =>
          /\ last.reads \subseteq ExportedFields
          /\ \A i \in DOMAIN NodeFields \ ExportedFields :
                /\ LowerKey(i) \in DOMAIN dstMap => LowerKey(i) \in DOMAIN dstMap0
                /\ LowerKey(i) \in DOMAIN dstMap0 =>
                      dstMap[LowerKey(i)] = dstMap0[LowerKey(i)]
    /\ MappingToRecord =>
          /\ inspected \subseteq ExportedFields
          /\ \A m \in merges : FieldAt(m.addr) \in ExportedFields
          /\ \A n \in DOMAIN drives :
                drives[n].typ # "Node" => FieldAt(drives[n].addr) \in ExportedFields
          /\ err.field \notin UnexportedNames
          /\ \A a \in DOMAIN mem0 :
                FieldAt(a) \notin ExportedFields => mem[a] = mem0[a]

(***************************************************************************)
(* C5: dispatch for a key that matches a field and has a valid resolved    *)
(* source.  The generic merge is called exactly when the source's shape    *)
(* equals the field's shape or both are interface-typed; the driver is     *)
(* re-entered exactly when the source is a mapping of another shape than   *)
(* the field; every other pair fails with a TypeMismatch naming the        *)
(* upper-initial field name, the found and the expected shape.             *)
(***************************************************************************)
C5_Dispatch ==
    (MappingToRecord /\ last.op \in {"deepMerge", "deepMap", "mismatch"}) =>
        LET sk == last.src.k
            dk == KindOf(NodeFields[last.field].typ)
            same == sk = dk \/ (sk = "interface" /\ dk = "interface")
        IN  /\ last.op = "deepMerge" <=> same
            /\ last.op = "deepMap" <=> (sk = "map" /\ ~same)
            /\ last.op = "mismatch" <=> (sk # "map" /\ ~same)
            /\ last.op = "mismatch" =>
                  err = TypeMismatch(changeInitialCase(last.key, ToUpper), sk, dk)

(***************************************************************************)
(* C6: an entry whose resolved source is not a valid value (an untyped     *)
(* nil, or a nil pointer dereferenced because the field is no pointer) is  *)
(* skipped: no error, no abnormal termination, the field keeps its value,  *)
(* and the call goes on.                                                   *)
(***************************************************************************)
C6_InvalidSkipped ==
    (MappingToRecord /\ last.field # 0 /\ last.src.k = "invalid") =>
        /\ pc = "running"
        /\ err = NoErr
        /\ mem[last.addr] = last.before

(***************************************************************************)
(* C7: an unknown key (its upper-initial form names no field of the        *)
(* record) causes no error, changes and creates nothing, and the loop goes *)
(* on with the other keys; a source of unknown keys only leaves the record *)
(* as it was and returns nil.                                              *)
(***************************************************************************)
UnknownKey(k) ==
    \A i \in DOMAIN NodeFields :
        NodeFields[i].name # changeInitialCase(k, ToUpper)

TookKey == keysDone' = keysDone + 1

C7_UnknownKeySkipped ==
    /\ [][(TookKey /\ UnknownKey(last'.key)) =>
             /\ mem' = mem
             /\ err' = NoErr
             /\ pc' = "running"
             /\ inspected' = inspected
             /\ merges' = merges /\ drives' = drives /\ builds' = builds
             /\ Len(stack') = Len(stack)
             /\ stack'[Len(stack)].todo = stack[Len(stack)].todo \ {last'.key}
          ]_vars
    /\ []((/\ MappingToRecord /\ pc = "done"
           /\ \A k \in DOMAIN srcMaps[1] : UnknownKey(k))
          => (mem = mem0 /\ err = NoErr))

C7_Witness ==
    /\ MappingToRecord /\ pc = "done"
    /\ Cardinality(DOMAIN srcMaps[1]) = 2
    /\ \A k \in DOMAIN srcMaps[1] : UnknownKey(k)
    /\ keysDone = 2
    /\ err = NoErr /\ mem = mem0

(***************************************************************************)
(* C8: every mapping -> record conversion terminates: it returns after     *)
(* finitely many driver and record-builder invocations and allocations,    *)
(* so it never runs out of stack, whatever the destination and the source  *)
(* (a source mapping that contains itself included).                       *)
(***************************************************************************)
C8_Terminates == MappingToRecord => pc # "overflow"

\* what does hold: the stack is exhausted only when the source mapping
\* reaches itself and the destination has a nil pointer to allocate
SourceAcyclic ==
    /\ \A k \in DOMAIN srcMaps[1] : srcMaps[1][k] # MapV(1)
    /\ \A k \in DOMAIN srcMaps[2] : srcMaps[2][k].k # "map"

OverflowNeedsSourceCycle ==
    (MappingToRecord /\ pc = "overflow") =>
        /\ ~SourceAcyclic
        /\ \E a \in DOMAIN mem0 : mem0[a] = PtrV("*Node", 0)

(***************************************************************************)
(* C9: the first error raised while populating a record is returned from   *)
(* the top-level call as it is and ends the call: no key is taken up       *)
(* afterwards and the failing step restores nothing.                       *)
(***************************************************************************)
C9_AbortNoRollback ==
    /\ [][/\ pc # "done"
          /\ (TookKey /\ last'.op = "mismatch") =>
                err' = TypeMismatch(changeInitialCase(last'.key, ToUpper),
                                    last'.src.k,
                                    KindOf(NodeFields[last'.field].typ))
          /\ (TookKey /\ err' # NoErr) =>
                /\ pc' = "done"
                /\ stack' = <<>>
                /\ mem' = mem
                /\ last'.op \in {"mismatch", "deepMerge"}
         ]_vars
    /\ [](err # NoErr => pc = "done")

\* a nested mismatch after the outer record's Age was written
C9_Witness ==
    /\ MappingToRecord /\ pc = "done"
    /\ err.kind = "TypeMismatch" /\ err.field = nAge
    /\ last.frames = 2
    /\ mem0[2] = IntV(0) /\ mem[2] = IntV(5)
    /\ keysDone = 3

(***************************************************************************)
(* C10: within one call the builders process each destination location at  *)
(* most once per (address, declared type); the driver passes the visited   *)
(* check once per (address, type), and what the table records is what      *)
(* passed it.                                                              *)
(***************************************************************************)
C10_VisitedOnce ==
    /\ \A i, j \in DOMAIN builds :
          (builds[i].addr = builds[j].addr /\ builds[i].typ = builds[j].typ)
              => i = j
    /\ \A i, j \in DOMAIN drives :
          (drives[i].addr = drives[j].addr /\ drives[i].typ = drives[j].typ)
              => i = j
    /\ \A h \in DOMAIN visited : \A n \in DOMAIN visited[h] :
          \E m \in DOMAIN drives :
              /\ drives[m].addr = visited[h][n].ptr
              /\ drives[m].typ = visited[h][n].typ

====
